---- MODULE Spec2Model ----
(***************************************************************************)
(* Emilia Print Mirror: the mirror engine of src/src/mirror_service.py     *)
(* (PrinterMirrorCore), whose loop src/src/mirror_app.py (MirrorWorker)    *)
(* repeats line for line.                                                  *)
(*                                                                         *)
(* The engine polls the job queues of its source printers, copies the      *)
(* spool payload of every newly seen job to the destination printer under  *)
(* a "[MIRROR:<source>] " document name, and keeps per source the set of   *)
(* job ids it has already handled (processed_jobs).                        *)
(*                                                                         *)
(* Strings are sequences of one-character strings, so that startswith()    *)
(* is a real prefix test.  The print spooler, the spool directory and the  *)
(* host that requests the stop are the environment.                        *)
(***************************************************************************)
EXTENDS Integers, Sequences, FiniteSets, TLC

(***************************************************************************)
(* Bounds of the model.                                                    *)
(***************************************************************************)
\* job ids a queue hands out are 1..MaxId (the spooler reuses a free id)
MaxId == 2
\* jobs the applications print during one behaviour
MaxJobs == 2
\* printer API calls of the snapshot reader that fail during one behaviour
MaxEnumFail == 1
\* the retry bounds _read_spool_data is run with on its own are 0..MaxRetries
MaxRetries == 6
\* the workers the GUI starts during one behaviour, and the new jobs one
\* snapshot of a worker shows
MaxWorkers == 2
MaxNew == 2

(***************************************************************************)
(* Program constants.                                                      *)
(***************************************************************************)
\* _read_spool_data(self, job_id, retries=5)
Retries == 5
\* time.sleep(0.3) before the file is opened, time.sleep(0.5) between two
\* attempts, in milliseconds
SettleDelay == 300
Backoff == 500
\* time.sleep(1.0) before _copy_job, time.sleep(self.interval) with the
\* default interval of 1.0, and self.worker.wait(3000), in milliseconds
PreCopyDelay == 1000
Interval == 1000
WaitMs == 3000

JobIds == 1..MaxId

\* the printers of the system; "D" is dest_printer
Printers == {"A", "D"}
dest_printer == "D"

\* the configuration (source_printers) the engine is constructed with: the
\* service takes any list from config.json, and here the destination is one
\* of the sources, so that the engine sees the jobs it has submitted itself
Configs == {<<"A", "D">>}

\* document names of the jobs that arrive from outside the engine: a plain
\* one on every printer, and on the destination also the name of a mirror job
\* (one that another run of the mirror has submitted there)
PlainDoc == <<"d", "o", "c">>
OldMirrorDoc == <<"[", "M", "I", "R", "R", "O", "R", ":", "A", "]", " ", "d", "o", "c">>
DocNames == {PlainDoc, OldMirrorDoc}
DocsOn(p) == IF p = dest_printer THEN DocNames ELSE {PlainDoc}

(***************************************************************************)
(* Strings.                                                                *)
(***************************************************************************)
\* str.startswith
StartsWith(s, prefix) ==
    /\ Len(s) >= Len(prefix)
    /\ SubSeq(s, 1, Len(prefix)) = prefix

\* the literal "[MIRROR" of run_once
MirrorMarker == <<"[", "M", "I", "R", "R", "O", "R">>

\* document.startswith("[MIRROR"); IsMirrorDocLower is the test with the
\* marker in lower case, the variant C4 has to tell from it
IsMirrorDocLower(document) == StartsWith(document, <<"[", "m", "i", "r", "r", "o", "r">>)
IsMirrorDoc(document) == StartsWith(document, MirrorMarker)

\* f"[MIRROR:{source_printer}] {document_name}"
MirrorDocName(source_printer, document_name) ==
    MirrorMarker \o <<":", source_printer, "]", " ">> \o document_name

(***************************************************************************)
(* The state.                                                              *)
(***************************************************************************)
VARIABLES
    \* ---- the engine (PrinterMirrorCore) ----
    source_printers,  \* self.source_printers, fixed at construction
    running,          \* self.running
    processed_jobs,   \* self.processed_jobs: source printer -> set of job ids
    pc,               \* where the loop thread stands
    printerIdx,       \* position of "for printer in self.source_printers"
    current_jobs,     \* run_once: current_jobs, the snapshot of this poll
    todo,             \* run_once: what sorted(new_job_ids) still has to yield
    job_id,           \* run_once: job_id, the job being copied (0: none)
    attempt,          \* _read_spool_data: attempt
    ret,              \* what _copy_job did and returned
    copied,           \* run_once: copied
    \* ---- the environment ----
    queue,            \* printer -> the jobs queued on it (job id -> job)
    stopRequested,    \* the host has called stop()
    \* ---- history, read by the properties only ----
    before,           \* processed_jobs[printer] when this poll took its snapshot
    snapFailed,       \* this poll's enumeration failed
    stopSeen,         \* this poll's job loop left through "if not self.running"
    attempted,        \* the job ids this poll has called _copy_job for
    hist,             \* job uid -> the outcomes of the copies made of it so far,
                      \* kept for as long as the job is queued
    trackedUid,       \* source -> job id -> uid of the job the id is in the
                      \* tracker for (-1: it is not in the tracker)
    usedIds,          \* source -> the ids that have been in its tracker
    idle,             \* source -> ids that were free at its latest snapshot
    enumFails,        \* failed printer API calls of the snapshot reader so far
    arrivals,         \* jobs printed so far
    \* ---- what the host and the log sink see of the loop ----
    spool,            \* how os.listdir(self.spool_dir) of run() ended
    status,           \* the statuses emitted so far (MirrorWorker.status_changed)
    logged,           \* the log lines of the loop thread's latest step
    handles,          \* printer handles opened and not yet given to ClosePrinter
    \* ---- _read_spool_data, run on its own ----
    retries,          \* _read_spool_data: retries
    waited,           \* the milliseconds the call has slept so far
    finds,            \* the calls of _find_spool_file it has made so far
    spool_data,       \* what it has returned ("pending": it has not returned)
    \* ---- _find_spool_file and the spool directory ----
    spool_dir,        \* the entries of the directory self.spool_dir, in the
                      \* order os.listdir yields them
    listable,         \* os.listdir(self.spool_dir) returns (it raises if not)
    spool_file,       \* what _find_spool_file has returned
    spooling,         \* the job the spooler is writing the file of (NoJob: none)
    clock,            \* the time of the file system
    data,             \* the bytes the last f.read() of _read_spool_data returned
    \* ---- the three copies of the loop, side by side ----
    loops,            \* the state of each copy
    stopAt,           \* the moment of the stop request
    \* ---- the GUI (PrinterMirrorApp) and its worker threads ----
    worker,           \* self.worker: the index of a worker, 0 for None
    workers,          \* the MirrorWorker threads started so far
    start_btn,        \* start_btn is enabled (stop_btn is when it is not)
    hostPc            \* "idle", or "waiting" inside self.worker.wait(3000)

vars == <<source_printers, running, processed_jobs, pc, printerIdx, current_jobs,
          todo, job_id, attempt, ret, copied, queue, stopRequested, before,
          snapFailed, stopSeen, attempted, hist, trackedUid, usedIds, idle,
          enumFails, arrivals, spool, status, logged, handles, retries, waited, finds,
          spool_data, spool_dir, listable, spool_file, spooling, clock, data,
          loops, stopAt, worker, workers, start_btn, hostPc>>

\* the spool directory and the locator
dirVars == <<spool_dir, listable, spool_file, spooling, clock, data>>

\* the copies of the loop that are compared
copyVars == <<loops, stopAt>>

\* the GUI and its workers
hostVars == <<worker, workers, start_btn, hostPc>>

\* what the loop of the engine never changes: its configuration, the state
\* of the reader when it is run on its own, and the GUI
fixedVars == <<source_printers, retries, waited, finds, spool_data, dirVars,
               copyVars, hostVars>>

engineVars == <<fixedVars, running, processed_jobs, pc, printerIdx,
                current_jobs, todo, job_id, attempt, ret, copied>>

pollHistory == <<before, snapFailed, stopSeen, attempted>>

\* what the steps of the spooler and of the host leave alone
sinkVars == <<spool, status, logged, handles>>

(***************************************************************************)
(* Values.                                                                 *)
(***************************************************************************)
\* uid 0 is shared by the jobs the engine itself submits to the destination
Uids == 0..MaxJobs

Range(s) == {s[i] : i \in 1..Len(s)}

\* the printer the "for printer in self.source_printers" loop stands at
printer == source_printers[printerIdx]

\* an empty dict of jobs
NoJobs == [id \in {} |-> 0]

\* min(S): sorted(new_job_ids) yields the ids in ascending order; MaxOf (the
\* ids in descending order) is the variant C25 has to tell from it
MaxOf(S) == CHOOSE x \in S : \A y \in S : x >= y
Min(S) == CHOOSE x \in S : \A y \in S : x <= y

\* a job as the spooler holds it; "status" of EnumJobs is never read by the
\* engine.  uid, pre and clean are history: which job this is, whether it was
\* queued before run() began, and whether a snapshot of its printer saw its id
\* free before the job took it.
Job(document, uid, pre, clean) ==
    [document |-> document, uid |-> uid, pre |-> pre, clean |-> clean]

\* what _copy_job leaves behind when it has not run
NoRet == [ran |-> FALSE]

\* the log lines of run() and run_once(), without their parameters
LogStarted == "Mirror started"
LogNoAccess == "ERROR: No access to spool directory"
LogIgnoring == "Ignoring existing job(s)"
LogNewJob == "New job"
LogStopped == "Mirror stopped"

(***************************************************************************)
(* The pure parts of the engine.                                           *)
(***************************************************************************)
\* the printer API calls of _get_current_jobs that may raise
EnumCalls == {"OpenPrinter", "EnumJobs", "ClosePrinter"}

\* _get_current_jobs: jobs = {} is filled only after EnumJobs has returned; an
\* exception of OpenPrinter or EnumJobs is swallowed and leaves it empty, one
\* of ClosePrinter (in the finally) is swallowed after it has been filled.
\* fault is the call that raises, "none" if none does.
GetCurrentJobs(printerJobs, fault) ==
    IF fault \in {"OpenPrinter", "EnumJobs"}
        THEN NoJobs
        ELSE [id \in DOMAIN printerJobs |-> printerJobs[id]]

\* the printer API calls one _get_current_jobs makes when fault raises: the
\* finally clause calls ClosePrinter once OpenPrinter has returned;
\* EnumRunNoFinally (ClosePrinter as the last statement of the try body) is
\* the variant C27 has to tell from it
EnumRunNoFinally(fault) ==
    CASE fault = "OpenPrinter" -> <<"OpenPrinter">>
      [] fault = "EnumJobs" -> <<"OpenPrinter", "EnumJobs">>
      [] OTHER -> <<"OpenPrinter", "EnumJobs", "ClosePrinter">>
EnumRun(fault) ==
    IF fault = "OpenPrinter"
        THEN <<"OpenPrinter">>
        ELSE <<"OpenPrinter", "EnumJobs", "ClosePrinter">>

\* the handles a run of printer API calls leaves behind: those OpenPrinter
\* has returned, less those ClosePrinter has been called for
HandlesLeft(calls, faults) ==
    Cardinality({i \in DOMAIN calls :
                    calls[i] = "OpenPrinter" /\ "OpenPrinter" \notin faults})
    - Cardinality({i \in DOMAIN calls : calls[i] = "ClosePrinter"})

\* new_job_ids = set(current_jobs.keys()) - self.processed_jobs.get(printer, set());
\* NewJobIdsShared (one tracker for all the sources) is the variant C16 has
\* to tell from it
NewJobIdsShared(jobs, processed) ==
    (DOMAIN jobs) \ UNION {processed_jobs[p] : p \in DOMAIN processed_jobs}
NewJobIds(jobs, processed) == (DOMAIN jobs) \ processed

\* self.processed_jobs[printer] &= set(current_jobs.keys()); EvictNothing
\* (the statement left out) and EvictUnion (|= for &=) are the variants C8
\* and C7 have to tell from it
EvictNothing(processed, jobs) == processed
EvictUnion(processed, jobs) == processed \cup (DOMAIN jobs)
Evict(processed, jobs) == processed \cap (DOMAIN jobs)

\* "if self._copy_job(...): copied += 1" and then, whatever it returned,
\* self.processed_jobs[printer].add(job_id); AddCopiedOnSuccess (the add
\* inside the if) is the variant C6 has to tell from it
AddCopiedOnSuccess(processed, id, ok) == IF ok THEN processed \cup {id} ELSE processed
AddCopied(processed, id, ok) == processed \cup {id}

\* one attempt of _read_spool_data: the file is not found, its read raises,
\* its content is empty, or it has content
ReadOutcomes == {"missing", "ioerror", "empty", "data"}

\* the printer API calls of _copy_job that may raise
DestCalls == {"OpenPrinter", "StartDocPrinter", "StartPagePrinter", "WritePrinter",
              "EndPagePrinter", "EndDocPrinter", "ClosePrinter"}

\* the sets of calls that raise in one execution of _copy_job
FaultSets == {{}} \cup {{c} : c \in DestCalls}

\* _copy_job when _read_spool_data has returned None
CaptureFailed ==
    [ran |-> TRUE, read |-> FALSE, faults |-> {}, calls |-> <<>>,
     log |-> <<"Could not read job">>, result |-> FALSE, raised |-> FALSE,
     started |-> FALSE, written |-> FALSE]

\* _copy_job from OpenPrinter on, with the calls of faults raising: the
\* try/finally blocks run EndDocPrinter once StartDocPrinter has returned and
\* ClosePrinter once OpenPrinter has returned; "OK" is logged after the inner
\* finally, before the outer one; the except clause turns every exception into
\* a logged False.
DestRun(faults) ==
    LET opened    == "OpenPrinter" \notin faults
        started   == opened /\ "StartDocPrinter" \notin faults
        paged     == started /\ "StartPagePrinter" \notin faults
        written   == paged /\ "WritePrinter" \notin faults
        pageEnded == written /\ "EndPagePrinter" \notin faults
        docEnded  == started /\ "EndDocPrinter" \notin faults
        bodyOk    == pageEnded /\ docEnded
        closed    == opened /\ "ClosePrinter" \notin faults
        inPage    == IF paged
                        THEN <<"WritePrinter">> \o
                             (IF written THEN <<"EndPagePrinter">> ELSE <<>>)
                        ELSE <<>>
        inDoc     == IF started
                        THEN <<"StartPagePrinter">> \o inPage \o <<"EndDocPrinter">>
                        ELSE <<>>
        inHandle  == IF opened
                        THEN <<"StartDocPrinter">> \o inDoc \o <<"ClosePrinter">>
                        ELSE <<>>
    IN  [calls   |-> <<"OpenPrinter">> \o inHandle,
         bodyOk  |-> bodyOk,
         failed  |-> ~(bodyOk /\ closed),
         started |-> started,
         written |-> written]

\* CopyJobNoExcept is _copy_job without its except clause, the variant C10
\* has to tell from CopyJob
CopyJobNoExcept(faults) ==
    LET d == DestRun(faults)
    IN  [ran |-> TRUE, read |-> TRUE, faults |-> faults, calls |-> d.calls,
         log |-> IF d.bodyOk THEN <<"OK">> ELSE <<>>,
         result |-> ~d.failed, raised |-> d.failed,
         started |-> d.started, written |-> d.written]
CopyJob(faults) ==
    LET d == DestRun(faults)
    IN  [ran |-> TRUE, read |-> TRUE, faults |-> faults, calls |-> d.calls,
         log |-> (IF d.bodyOk THEN <<"OK">> ELSE <<>>) \o
                 (IF d.failed THEN <<"Error copying job">> ELSE <<>>),
         result |-> ~d.failed, raised |-> FALSE,
         started |-> d.started, written |-> d.written]

\* how a copy enters the history of its job: WritePrinter has put the payload
\* on the destination ("sent"), or the copy failed before that ("failed")
Outcome(r) == IF r.written THEN "sent" ELSE "failed"

\* the number of copies of a history that put the payload on the destination
RECURSIVE Sent(_)
Sent(h) ==
    IF h = <<>> THEN 0
    ELSE (IF Head(h) = "sent" THEN 1 ELSE 0) + Sent(Tail(h))

\* the history of job u with the outcome of one more copy
Queued(u) ==
    \E p \in Printers : \E id \in DOMAIN queue[p] : queue[p][id].uid = u
Recorded(u, r) ==
    IF u = 0 \/ Queued(u) THEN [hist EXCEPT ![u] = Append(@, Outcome(r))] ELSE hist

\* the id the spooler of the destination gives the next document
FreeIds(p) == JobIds \ DOMAIN queue[p]

\* a queue with one more job, and with one job less
WithJob(printerJobs, id, job) ==
    [i \in (DOMAIN printerJobs) \cup {id} |-> IF i = id THEN job ELSE printerJobs[i]]
WithoutJob(printerJobs, id) ==
    [i \in (DOMAIN printerJobs) \ {id} |-> printerJobs[i]]

(***************************************************************************)
(* Init: the engine is constructed (__init__), run() has not begun.        *)
(***************************************************************************)
NoJob == <<>>

Never == <<"never", 0>>

NoLoops ==
    /\ loops = <<>>
    /\ stopAt = Never

NoDirectory ==
    /\ spool_dir = <<>>
    /\ listable = TRUE
    /\ spool_file = "pending"
    /\ spooling = NoJob
    /\ clock = 0
    /\ data = <<>>
    /\ NoLoops

Constructed ==
    /\ source_printers \in Configs
    /\ running = FALSE
    /\ processed_jobs = [p \in Range(source_printers) |-> {}]
    /\ printerIdx = 1
    /\ current_jobs = NoJobs
    /\ todo = {}
    /\ attempt = 0
    /\ ret = NoRet
    /\ copied = 0
    /\ queue = [p \in Printers |-> NoJobs]
    /\ stopRequested = FALSE
    /\ before = {}
    /\ snapFailed = FALSE
    /\ stopSeen = FALSE
    /\ attempted = {}
    /\ hist = [u \in Uids |-> <<>>]
    /\ trackedUid = [p \in Range(source_printers) |-> [id \in JobIds |-> -1]]
    /\ usedIds = [p \in Range(source_printers) |-> {}]
    /\ idle = [p \in Range(source_printers) |-> {}]
    /\ enumFails = 0
    /\ arrivals = 0
    /\ spool = "unchecked"
    /\ status = <<>>
    /\ logged = <<>>
    /\ handles = 0
    /\ waited = 0
    /\ finds = 0
    /\ spool_data = "pending"
    /\ worker = 0
    /\ workers = <<>>
    /\ start_btn = TRUE
    /\ hostPc = "idle"

Init ==
    /\ Constructed
    /\ NoDirectory
    /\ pc = "init"
    /\ job_id = 0
    /\ retries = Retries

(***************************************************************************)
(* The environment.                                                        *)
(***************************************************************************)
\* The engine reads the queue of a printer in _get_current_jobs only, and the
\* spooler of the destination picks the id of a new document in
\* StartDocPrinter only.  A change of a queue at any other moment has the
\* effect of the same change made right before the next of these reads of
\* that queue, so a queue changes there: before run() begins, before its
\* snapshot is taken, and (the destination) before the submission.
QueueRead(p) ==
    \/ pc = "init"
    \/ /\ pc \in {"seed", "src"}
       /\ printerIdx <= Len(source_printers)
       /\ p = source_printers[printerIdx]
    \/ pc = "submit" /\ p = dest_printer

\* an application prints document on source printer p; the spooler gives the
\* job a free id of that queue
Arrive(p, id, document) ==
    /\ QueueRead(p)
    /\ arrivals < MaxJobs
    /\ p \in Range(source_printers)
    /\ document \in DocsOn(p)
    /\ id \in FreeIds(p)
    /\ arrivals' = arrivals + 1
    /\ queue' = [queue EXCEPT ![p] =
                    WithJob(@, id, Job(document, arrivals + 1, pc = "init", id \in idle[p]))]
    /\ idle' = [idle EXCEPT ![p] = @ \ {id}]
    /\ UNCHANGED <<engineVars, stopRequested, pollHistory, hist, trackedUid, usedIds,
                   enumFails, sinkVars>>

\* a job leaves its queue: printed, or cancelled by the user
Remove(p, id) ==
    /\ QueueRead(p)
    /\ id \in DOMAIN queue[p]
    /\ queue' = [queue EXCEPT ![p] = WithoutJob(@, id)]
    /\ hist' = IF queue[p][id].uid = 0
                 THEN hist
                 ELSE [hist EXCEPT ![queue[p][id].uid] = <<>>]
    /\ UNCHANGED <<engineVars, stopRequested, pollHistory, trackedUid, usedIds, idle,
                   enumFails, arrivals, sinkVars>>

\* stop(), called by the host from its own thread once run() has begun (a
\* call that comes between the start of the thread and the first statement of
\* run() is followed in the GUI and its workers, below)
Stop ==
    /\ ~stopRequested
    /\ pc \notin {"init", "stopped", "error", "raised"}
    /\ stopRequested' = TRUE
    /\ running' = FALSE
    /\ UNCHANGED <<fixedVars, processed_jobs, pc, printerIdx, current_jobs,
                   todo, job_id, attempt, ret, copied, queue, pollHistory, hist,
                   trackedUid, usedIds, idle, enumFails, arrivals, sinkVars>>

(***************************************************************************)
(* The engine: run() and run_once().                                       *)
(***************************************************************************)
\* the calls of one _get_current_jobs that may raise in this behaviour
EnumFaults == {"none"} \cup (IF enumFails < MaxEnumFail THEN EnumCalls ELSE {})

\* how os.listdir(self.spool_dir) ends: it returns, or raises PermissionError,
\* or raises another OSError (the directory does not exist, is no directory)
ListDir == {"ok", "PermissionError", "OSError"}

\* run(), up to the check of the spool directory: running is set, "running"
\* is emitted (MirrorWorker) and the start is logged; then os.listdir returns,
\* or raises PermissionError (logged, "error" emitted, run returns), or raises
\* another OSError, which no except clause catches
Start ==
    /\ pc = "init"
    /\ UNCHANGED handles
    /\ running' = TRUE
    /\ \E dir \in ListDir :
          /\ spool' = dir
          /\ pc' = CASE dir = "ok" -> "seed"
                    [] dir = "PermissionError" -> "error"
                    [] OTHER -> "raised"
          /\ status' = <<"running">> \o
                        (IF dir = "PermissionError" THEN <<"error">> ELSE <<>>)
          /\ logged' = <<LogStarted>> \o
                        (IF dir = "PermissionError" THEN <<LogNoAccess>> ELSE <<>>)
    /\ printerIdx' = 1
    /\ UNCHANGED <<fixedVars, processed_jobs, current_jobs, todo, job_id,
                   attempt, ret, copied, queue, stopRequested, pollHistory, hist,
                   trackedUid, usedIds, idle, enumFails, arrivals>>

\* run(), "for printer in self.source_printers": the tracker of one source is
\* set to the ids of its snapshot
Seed ==
    /\ pc = "seed"
    /\ \E fault \in EnumFaults :
          LET existing_jobs == GetCurrentJobs(queue[printer], fault)
          IN  /\ processed_jobs' =
                    [processed_jobs EXCEPT ![printer] = DOMAIN existing_jobs]
              /\ trackedUid' =
                    [trackedUid EXCEPT ![printer] =
                        [id \in JobIds |->
                            IF id \in DOMAIN existing_jobs
                               THEN existing_jobs[id].uid
                               ELSE -1]]
              /\ enumFails' = enumFails + (IF fault = "none" THEN 0 ELSE 1)
              /\ handles' = handles + HandlesLeft(EnumRun(fault), {fault})
    /\ usedIds' = [p \in DOMAIN usedIds |-> usedIds[p] \cup processed_jobs'[p]]
    /\ idle' = [idle EXCEPT ![printer] = FreeIds(printer)]
    /\ IF printerIdx < Len(source_printers)
          THEN /\ printerIdx' = printerIdx + 1
               /\ pc' = pc
          ELSE /\ printerIdx' = 1
               /\ pc' = "top"
    /\ logged' = <<LogIgnoring>>
    /\ UNCHANGED <<fixedVars, running, current_jobs, todo, job_id, attempt,
                   ret, copied, queue, stopRequested, pollHistory, hist, arrivals,
                   spool, status>>

\* run(), "while self.running": the next run_once() begins, or the loop ends.
\* The time.sleep(self.interval) that follows run_once() is the time the
\* thread spends before this step.
WhileRunning ==
    /\ pc = "top"
    /\ UNCHANGED handles
    /\ IF running
          THEN /\ pc' = "src"
               /\ logged' = <<>>
               /\ status' = status
          ELSE /\ pc' = "stopped"
               /\ logged' = <<LogStopped>>
               /\ status' = Append(status, "stopped")
    /\ printerIdx' = 1
    /\ copied' = 0
    /\ UNCHANGED <<fixedVars, running, processed_jobs, current_jobs, todo,
                   job_id, attempt, ret, queue, stopRequested, pollHistory, hist,
                   trackedUid, usedIds, idle, enumFails, arrivals, spool>>

\* run_once(), "for printer in self.source_printers" up to new_job_ids: the
\* loop is over, or it breaks because running is false, or the snapshot of the
\* next source is taken
PollSource ==
    /\ pc = "src"
    /\ IF printerIdx > Len(source_printers) \/ ~running
          THEN /\ pc' = "top"
               /\ UNCHANGED <<current_jobs, todo, pollHistory, idle, enumFails, handles>>
          ELSE /\ \E fault \in EnumFaults :
                    /\ current_jobs' = GetCurrentJobs(queue[printer], fault)
                    /\ snapFailed' = (fault \in {"OpenPrinter", "EnumJobs"})
                    /\ enumFails' = enumFails + (IF fault = "none" THEN 0 ELSE 1)
                    /\ handles' = handles + HandlesLeft(EnumRun(fault), {fault})
               /\ todo' = NewJobIds(current_jobs', processed_jobs[printer])
               /\ before' = processed_jobs[printer]
               /\ stopSeen' = FALSE
               /\ attempted' = {}
               /\ idle' = [idle EXCEPT ![printer] = FreeIds(printer)]
               /\ pc' = "job"
    /\ logged' = <<>>
    /\ UNCHANGED <<fixedVars, running, processed_jobs, printerIdx, job_id,
                   attempt, ret, copied, queue, stopRequested, hist, trackedUid, usedIds,
                   arrivals, spool, status>>

\* run_once(), "for job_id in sorted(new_job_ids)" up to the call of
\* _copy_job: the loop is over or breaks, and the tracker is cut down to the
\* snapshot; or the next id is a mirror job and is only tracked; or it is
\* logged as a new job and, after time.sleep(1.0), goes to _copy_job
NextJob ==
    /\ pc = "job"
    /\ UNCHANGED handles
    /\ IF todo = {} \/ ~running
          THEN /\ processed_jobs' =
                    [processed_jobs EXCEPT ![printer] = Evict(@, current_jobs)]
               /\ trackedUid' =
                    [trackedUid EXCEPT ![printer] =
                        [id \in JobIds |->
                            IF id \in processed_jobs'[printer] THEN @[id] ELSE -1]]
               /\ stopSeen' = (todo # {})
               /\ pc' = "polled"
               /\ UNCHANGED <<todo, job_id, attempt>>
          ELSE LET id == Min(todo)
               IN  /\ todo' = todo \ {id}
                   /\ stopSeen' = stopSeen
                   /\ IF IsMirrorDoc(current_jobs[id].document)
                         THEN /\ processed_jobs' =
                                   [processed_jobs EXCEPT ![printer] = @ \cup {id}]
                              /\ trackedUid' =
                                   [trackedUid EXCEPT ![printer][id] =
                                       current_jobs[id].uid]
                              /\ pc' = pc
                              /\ UNCHANGED <<job_id, attempt>>
                         ELSE /\ job_id' = id
                              /\ attempt' = 0
                              /\ pc' = "read"
                              /\ UNCHANGED <<processed_jobs, trackedUid>>
    /\ logged' = IF pc' = "read" THEN <<LogNewJob>> ELSE <<>>
    /\ usedIds' = [p \in DOMAIN usedIds |-> usedIds[p] \cup processed_jobs'[p]]
    /\ UNCHANGED <<fixedVars, running, printerIdx, current_jobs, ret, copied,
                   queue, stopRequested, before, snapFailed, attempted, hist, idle,
                   enumFails, arrivals, spool, status>>

(***************************************************************************)
(* The engine: _copy_job() and the rest of the job loop.                   *)
(***************************************************************************)
\* the job being copied
document == current_jobs[job_id].document
uid == current_jobs[job_id].uid

\* _read_spool_data, one attempt: _find_spool_file and the read.  Content ends
\* the reader; anything else is followed by time.sleep(0.5) and the next
\* attempt, and after the last attempt by _copy_job's "Could not read job".
ReadAttempt ==
    /\ pc = "read"
    /\ UNCHANGED handles
    /\ \E out \in ReadOutcomes :
          IF out = "data"
             THEN /\ pc' = "submit"
                  /\ UNCHANGED <<attempt, ret, hist>>
             ELSE IF attempt < retries - 1
                     THEN /\ attempt' = attempt + 1
                          /\ pc' = pc
                          /\ UNCHANGED <<ret, hist>>
                     ELSE /\ ret' = CaptureFailed
                          /\ hist' = Recorded(uid, ret')
                          /\ pc' = "copied"
                          /\ UNCHANGED attempt
    /\ logged' = IF pc' = "copied" THEN ret'.log ELSE <<>>
    /\ UNCHANGED <<fixedVars, running, processed_jobs, printerIdx,
                   current_jobs, todo, job_id, copied, queue, stopRequested,
                   pollHistory, trackedUid, usedIds, idle, enumFails, arrivals,
                   spool, status>>

\* _copy_job from OpenPrinter(self.dest_printer) on.  The document that
\* StartDocPrinter starts is a job of the destination queue from then on.
Submit ==
    /\ pc = "submit"
    /\ \E faults \in FaultSets :
          /\ FreeIds(dest_printer) = {} =>
                faults \cap {"OpenPrinter", "StartDocPrinter"} # {}
          /\ ret' = CopyJob(faults)
    /\ hist' = Recorded(uid, ret')
    /\ IF ret'.started
          THEN LET new_job_id == Min(FreeIds(dest_printer))
                   polled == dest_printer \in Range(source_printers)
               IN  /\ queue' =
                        [queue EXCEPT ![dest_printer] =
                            WithJob(@, new_job_id,
                                    Job(MirrorDocName(printer, document), 0, FALSE,
                                        polled /\ new_job_id \in idle[dest_printer]))]
                   /\ idle' = IF polled
                                 THEN [idle EXCEPT ![dest_printer] = @ \ {new_job_id}]
                                 ELSE idle
          ELSE UNCHANGED <<queue, idle>>
    /\ pc' = "copied"
    /\ logged' = ret'.log
    /\ handles' = handles + HandlesLeft(ret'.calls, ret'.faults)
    /\ UNCHANGED <<fixedVars, running, processed_jobs, printerIdx,
                   current_jobs, todo, job_id, attempt, copied, stopRequested,
                   pollHistory, trackedUid, usedIds, enumFails, arrivals,
                   spool, status>>

\* run_once(), after _copy_job has returned: "copied += 1" if it returned
\* True, and self.processed_jobs[printer].add(job_id) in either case; an
\* exception that _copy_job let through ends run()
AfterCopy ==
    /\ pc = "copied"
    /\ UNCHANGED handles
    /\ IF ret.raised
          THEN /\ pc' = "raised"
               /\ UNCHANGED <<processed_jobs, trackedUid, copied, job_id, ret>>
          ELSE /\ copied' = copied + (IF ret.result THEN 1 ELSE 0)
               /\ processed_jobs' =
                    [processed_jobs EXCEPT ![printer] = AddCopied(@, job_id, ret.result)]
               /\ trackedUid' =
                    [trackedUid EXCEPT ![printer][job_id] =
                        IF job_id \in processed_jobs'[printer] THEN uid ELSE -1]
               /\ job_id' = 0
               /\ ret' = NoRet
               /\ pc' = "job"
    /\ attempt' = 0
    /\ attempted' = attempted \cup {job_id}
    /\ usedIds' = [p \in DOMAIN usedIds |-> usedIds[p] \cup processed_jobs'[p]]
    /\ logged' = <<>>
    /\ UNCHANGED <<fixedVars, running, printerIdx, current_jobs, todo, queue,
                   stopRequested, before, snapFailed, stopSeen, hist, idle,
                   enumFails, arrivals, spool, status>>

\* run_once(): the for loop goes on to the next source
NextSource ==
    /\ pc = "polled"
    /\ UNCHANGED handles
    /\ printerIdx' = printerIdx + 1
    /\ current_jobs' = NoJobs
    /\ todo' = {}
    /\ before' = {}
    /\ snapFailed' = FALSE
    /\ stopSeen' = FALSE
    /\ attempted' = {}
    /\ pc' = "src"
    /\ logged' = <<>>
    /\ UNCHANGED <<fixedVars, running, processed_jobs, job_id, attempt, ret,
                   copied, queue, stopRequested, hist, trackedUid, usedIds, idle,
                   enumFails, arrivals, spool, status>>

Next ==
    \/ Start
    \/ Seed
    \/ WhileRunning
    \/ PollSource
    \/ NextJob
    \/ ReadAttempt
    \/ Submit
    \/ AfterCopy
    \/ NextSource
    \/ Stop
    \/ \E p \in Printers, id \in JobIds, d \in DocNames : Arrive(p, id, d)
    \/ \E p \in Printers, id \in JobIds : Remove(p, id)

Spec == Init /\ [][Next]_vars

(***************************************************************************)
(* _read_spool_data on its own: one call, for any job id and any retry     *)
(* bound, with the time it sleeps, and _copy_job's test of what it         *)
(* returned.                                                               *)
(***************************************************************************)
\* "for attempt in range(retries)": the loop has another iteration to make;
\* RangeOneMore (range(retries + 1)) and RangeUnbounded (while True) are the
\* variants C20 and C18 have to tell from it
RangeOneMore(done, n) == done <= n
RangeUnbounded(done, n) == TRUE
InRange(done, n) == done < n

ReaderInit ==
    /\ Constructed
    /\ NoDirectory
    /\ pc = "reading"
    /\ job_id \in JobIds
    /\ retries \in 0..MaxRetries

\* one iteration: _find_spool_file; if it found a file, time.sleep(0.3) and
\* the read, which returns the content if there is any; otherwise, unless
\* this was the last iteration, time.sleep(0.5)
ReaderAttempt ==
    /\ pc = "reading"
    /\ InRange(attempt, retries)
    /\ finds' = finds + 1
    /\ \E out \in ReadOutcomes :
          LET settled == waited + (IF out = "missing" THEN 0 ELSE SettleDelay)
          IN  IF out = "data"
                 THEN /\ spool_data' = "data"
                      /\ waited' = settled
                      /\ pc' = "returned"
                      /\ attempt' = attempt
                 ELSE /\ waited' = settled +
                                   (IF attempt < retries - 1 THEN Backoff ELSE 0)
                      /\ attempt' = attempt + 1
                      /\ UNCHANGED <<pc, spool_data>>
    /\ UNCHANGED <<source_printers, retries, running, processed_jobs, printerIdx,
                   current_jobs, todo, job_id, ret, copied, queue, stopRequested,
                   pollHistory, hist, trackedUid, usedIds, idle, enumFails, arrivals,
                   sinkVars, dirVars, copyVars, hostVars>>

\* the loop is over: return None
ReaderExhausted ==
    /\ pc = "reading"
    /\ ~InRange(attempt, retries)
    /\ spool_data' = "None"
    /\ pc' = "returned"
    /\ UNCHANGED <<source_printers, retries, waited, finds, running, processed_jobs,
                   printerIdx, current_jobs, todo, job_id, attempt, ret, copied, queue,
                   stopRequested, pollHistory, hist, trackedUid, usedIds, idle,
                   enumFails, arrivals, sinkVars, dirVars, copyVars, hostVars>>

\* _copy_job, "if not spool_data": the failure is logged and False returned,
\* or the copy goes on to the destination
Capture ==
    /\ pc = "returned"
    /\ UNCHANGED handles
    /\ IF spool_data = "None"
          THEN /\ ret' = CaptureFailed
               /\ logged' = ret'.log
               /\ pc' = "failed"
          ELSE /\ pc' = "captured"
               /\ UNCHANGED <<ret, logged>>
    /\ UNCHANGED <<fixedVars, running, processed_jobs, printerIdx, current_jobs,
                   todo, job_id, attempt, copied, queue, stopRequested, pollHistory,
                   hist, trackedUid, usedIds, idle, enumFails, arrivals, spool,
                   status>>

ReaderNext ==
    \/ ReaderAttempt
    \/ ReaderExhausted
    \/ Capture

ReaderSpec == ReaderInit /\ [][ReaderNext]_vars

(***************************************************************************)
(* The GUI of src/src/mirror_app.py and its worker threads: _start_mirror  *)
(* creates a MirrorWorker and starts its thread, _stop_mirror calls stop() *)
(* on it, waits at most 3000 ms for the thread and forgets it.  A worker   *)
(* is MirrorWorker.run() reduced to its control flow: what a snapshot      *)
(* shows and how a read or a submission ends is chosen freely.  The thread *)
(* of a forgotten worker runs on: its run() still holds the object.        *)
(***************************************************************************)
\* everything but the GUI and its workers
loopVars == <<source_printers, retries, waited, finds, spool_data, dirVars, copyVars, running,
              processed_jobs, pc, printerIdx, current_jobs, todo, job_id, attempt,
              ret, copied, queue, stopRequested, pollHistory, hist, trackedUid,
              usedIds, idle, enumFails, arrivals, sinkVars>>

\* a thread that has left run(): normally, after the failed check of the
\* spool directory, or by an exception
Finished == {"stopped", "error", "raised"}

\* a worker that is capturing or submitting a job, and one that has a
\* document open on the destination
Copying == {"read", "open", "doc"}

\* MirrorWorker(sources, dest, interval) and worker.start(): the thread is
\* started, run() has not begun.  stopReq and afterStop are history: stop()
\* has been called, and the loop has passed a check of self.running after it.
NewWorker ==
    [pc |-> "start", running |-> FALSE, srcLeft |-> 0, todo |-> 0, attempt |-> 0,
     slept |-> 0, stopReq |-> FALSE, afterStop |-> FALSE]

\* the time worker w has slept since stop() was called on it, after a sleep
\* of ms more (counted up to the time the GUI waits)
Slept(w, ms) == IF w.stopReq THEN Min({w.slept + ms, WaitMs}) ELSE 0

HostInit ==
    /\ Constructed
    /\ NoDirectory
    /\ pc = "hosted"
    /\ job_id = 0
    /\ retries = Retries

\* _start_mirror, with valid selections
StartMirror ==
    /\ hostPc = "idle"
    /\ start_btn
    /\ Len(workers) < MaxWorkers
    /\ workers' = Append(workers, NewWorker)
    /\ worker' = Len(workers) + 1
    /\ start_btn' = FALSE
    /\ UNCHANGED <<hostPc, loopVars>>

\* _stop_mirror up to self.worker.wait(3000): MirrorWorker.stop()
StopMirror ==
    /\ hostPc = "idle"
    /\ ~start_btn
    /\ worker # 0
    /\ workers' = [workers EXCEPT ![worker] =
                      [@ EXCEPT !.running = FALSE, !.stopReq = TRUE, !.slept = 0]]
    /\ hostPc' = "waiting"
    /\ UNCHANGED <<worker, start_btn, loopVars>>

\* _stop_mirror from the return of wait(3000) on: the thread has finished, or
\* the 3000 ms have passed; self.worker = None and the buttons are switched
WaitReturns ==
    /\ hostPc = "waiting"
    /\ \/ workers[worker].pc \in Finished
       \/ workers[worker].slept >= WaitMs
    /\ worker' = 0
    /\ start_btn' = TRUE
    /\ hostPc' = "idle"
    /\ UNCHANGED <<workers, loopVars>>

\* worker i becomes w
Becomes(i, w) ==
    /\ workers' = [workers EXCEPT ![i] = w]
    /\ UNCHANGED <<worker, start_btn, hostPc, loopVars>>

\* worker i is at pc
At(i, at) == i <= Len(workers) /\ workers[i].pc = at

\* run() up to the loop: self.running = True, the check of the spool
\* directory, the seeding of the trackers
WorkerRun(i) ==
    /\ At(i, "start")
    /\ \E dir \in ListDir :
          Becomes(i, [workers[i] EXCEPT
                         !.running = TRUE,
                         !.pc = CASE dir = "ok" -> "top"
                                  [] dir = "PermissionError" -> "error"
                                  [] OTHER -> "raised"])

\* "while self.running"
WorkerWhile(i) ==
    /\ At(i, "top")
    /\ LET w == workers[i]
       IN  IF w.running
              THEN Becomes(i, [w EXCEPT !.pc = "src",
                                        !.srcLeft = Len(source_printers),
                                        !.afterStop = @ \/ w.stopReq])
              ELSE Becomes(i, [w EXCEPT !.pc = "stopped"])

\* "for printer in self.source_printers", "if not self.running: break", the
\* snapshot and new_job_ids
WorkerSource(i) ==
    /\ At(i, "src")
    /\ LET w == workers[i]
       IN  IF w.srcLeft = 0 \/ ~w.running
              THEN Becomes(i, [w EXCEPT !.pc = "sleep"])
              ELSE \E n \in 0..MaxNew :
                      Becomes(i, [w EXCEPT !.pc = "job", !.todo = n,
                                           !.afterStop = @ \/ w.stopReq])

\* "for job_id in sorted(new_job_ids)", "if not self.running: break"; a job
\* with a mirror name is only tracked, another one is logged as new
WorkerJob(i) ==
    /\ At(i, "job")
    /\ LET w == workers[i]
       IN  IF w.todo = 0 \/ ~w.running
              THEN Becomes(i, [w EXCEPT !.pc = "src", !.todo = 0,
                                        !.srcLeft = @ - 1])
              ELSE \E mirror \in BOOLEAN :
                      Becomes(i, [w EXCEPT !.pc = IF mirror THEN "job" ELSE "delay",
                                           !.todo = @ - 1,
                                           !.afterStop = @ \/ w.stopReq])

\* time.sleep(1.0), then _copy_job
WorkerDelay(i) ==
    /\ At(i, "delay")
    /\ Becomes(i, [workers[i] EXCEPT !.pc = "read", !.attempt = 0,
                                     !.slept = Slept(workers[i], PreCopyDelay)])

\* _read_spool_data, one attempt, and after the last one "Could not read job"
WorkerRead(i) ==
    /\ At(i, "read")
    /\ \E out \in ReadOutcomes :
          LET w == workers[i]
              settle == IF out = "missing" THEN 0 ELSE SettleDelay
          IN  IF out = "data"
                 THEN Becomes(i, [w EXCEPT !.pc = "open", !.slept = Slept(w, settle)])
                 ELSE IF w.attempt < Retries - 1
                         THEN Becomes(i, [w EXCEPT !.attempt = @ + 1,
                                                   !.slept = Slept(w, settle + Backoff)])
                         ELSE Becomes(i, [w EXCEPT !.pc = "job",
                                                   !.slept = Slept(w, settle)])

\* OpenPrinter and StartDocPrinter: the document is open on the destination,
\* or one of the two has raised
WorkerOpen(i) ==
    /\ At(i, "open")
    /\ \E ok \in BOOLEAN :
          Becomes(i, [workers[i] EXCEPT !.pc = IF ok THEN "doc" ELSE "job"])

\* StartPagePrinter to EndDocPrinter and ClosePrinter
WorkerDoc(i) ==
    /\ At(i, "doc")
    /\ Becomes(i, [workers[i] EXCEPT !.pc = "job"])

\* time.sleep(self.interval)
WorkerSleep(i) ==
    /\ At(i, "sleep")
    /\ Becomes(i, [workers[i] EXCEPT !.pc = "top",
                                     !.slept = Slept(workers[i], Interval)])

\* one step of the thread of worker i
WorkerNext(i) ==
    \/ WorkerRun(i)
    \/ WorkerWhile(i)
    \/ WorkerSource(i)
    \/ WorkerJob(i)
    \/ WorkerDelay(i)
    \/ WorkerRead(i)
    \/ WorkerOpen(i)
    \/ WorkerDoc(i)
    \/ WorkerSleep(i)

HostNext ==
    \/ StartMirror
    \/ StopMirror
    \/ WaitReturns
    \/ \E i \in 1..MaxWorkers : WorkerNext(i)

\* every thread that can take a step takes one, and wait(3000) returns
HostSpec ==
    /\ HostInit
    /\ [][HostNext]_vars
    /\ WF_vars(WaitReturns)
    /\ \A i \in 1..MaxWorkers : WF_vars(WorkerNext(i))

(***************************************************************************)
(* Properties.                                                             *)
(***************************************************************************)
\* the loop stands inside the poll of one source, its snapshot taken
InPoll == pc \in {"job", "read", "submit", "copied", "polled"}

\* the jobs that are queued now
QueuedJobs == UNION {{queue[p][id] : id \in DOMAIN queue[p]} : p \in Printers}

\* the jobs that the applications have printed and that are queued now
PrintedJobs == {j \in QueuedJobs : j.uid # 0}

\* C1: a job that stays queued on its source is submitted to the destination
\* at most once, over any number of poll cycles, cycles whose enumeration
\* fails included (the history of a job is dropped when it leaves the queue).
C1_SubmittedAtMostOnce ==
    \A j \in PrintedJobs : Sent(hist[j.uid]) <= 1

\* C2: a poll whose enumeration failed leaves the tracker of its source as it
\* was before the poll.
C2_FailedEnumerationKeepsTracker ==
    (pc = "polled" /\ snapFailed) => processed_jobs[printer] = before

\* C3: a job that was queued before run() began is never submitted while it
\* stays queued.
C3_StartupSuppression ==
    \A j \in PrintedJobs : j.pre => Sent(hist[j.uid]) = 0

\* a document name that carries the MirrorTag, "[MIRROR:<source>] " in front
\* of a name
CarriesMirrorTag(doc) ==
    \E src \in Printers :
        StartsWith(doc, <<"[", "M", "I", "R", "R", "O", "R", ":", src, "]", " ">>)

\* the new ids of this poll's snapshot
NewIds == (DOMAIN current_jobs) \ before

\* C4: a new job of the snapshot whose document name carries the MirrorTag
\* never becomes the job that is captured or submitted, no copy of it is on
\* record, and once the job loop has taken it its id is in the tracker of the
\* source.
C4_NoSelfMirroring ==
    InPoll =>
        \A id \in NewIds :
            CarriesMirrorTag(current_jobs[id].document) =>
                /\ job_id # id
                /\ id \notin attempted
                /\ hist[current_jobs[id].uid] = <<>>
                /\ id \notin todo => id \in processed_jobs[printer]

\* C4, the case: a poll has met a new job with a mirror name and has tracked it
C4_Witness ==
    /\ pc = "polled"
    /\ \E id \in NewIds :
          /\ CarriesMirrorTag(current_jobs[id].document)
          /\ id \in processed_jobs[printer]

\* C5: every name the engine submits under is recognised by its own check,
\* the jobs it has submitted are never copied again, and every other job
\* accounts for at most one submission (so the submissions never outnumber the
\* jobs that arrived without a mirror name).
C5_NoMirrorLoop ==
    /\ \A src \in Printers, d \in DocNames : IsMirrorDoc(MirrorDocName(src, d))
    /\ \A j \in QueuedJobs :
          IF j.uid = 0 \/ IsMirrorDoc(j.document)
             THEN hist[j.uid] = <<>>
             ELSE Sent(hist[j.uid]) <= 1

\* C6: after a poll that no stop request cut short, the tracker of the source
\* is (tracker before the poll \cap ids of the snapshot) \cup (ids of the
\* snapshot that were not in the tracker).
C6_TrackerInvariant ==
    (pc = "polled" /\ ~stopSeen) =>
        processed_jobs[printer] =
            (before \cap DOMAIN current_jobs) \cup ((DOMAIN current_jobs) \ before)

\* C6, the case: a completed poll that kept an old id and met a new one, which
\* it copied
C6_Witness ==
    /\ pc = "polled"
    /\ ~stopSeen
    /\ before \cap DOMAIN current_jobs # {}
    /\ NewIds \cap attempted # {}

\* C7: after a poll the tracker of the source holds only ids of the snapshot,
\* and none of the ids that were free on the queue when it was taken.
C7_EvictionBoundsTracker ==
    pc = "polled" =>
        /\ processed_jobs[printer] \subseteq DOMAIN current_jobs
        /\ processed_jobs[printer] \cap idle[printer] = {}

\* C7, the case: a poll has dropped an id whose job has left the queue
C7_Witness ==
    /\ pc = "polled"
    /\ ~snapFailed
    /\ before \ DOMAIN current_jobs # {}
    /\ before \cap idle[printer] # {}

\* a job of this poll's snapshot that the applications printed without a
\* mirror name
Plain(id) ==
    /\ current_jobs[id].uid # 0
    /\ ~CarriesMirrorTag(current_jobs[id].document)

\* the id of a job of the snapshot is in the tracker on behalf of another job
Mistaken(id) ==
    /\ id \in processed_jobs[printer]
    /\ trackedUid[printer][id] # current_jobs[id].uid

\* C8 as stated: whenever the id of a removed job is given to a new job, the
\* tracker never takes the new job for the old one.
C8_ReuseNeverMistaken ==
    InPoll => \A id \in DOMAIN current_jobs : Plain(id) => ~Mistaken(id)

\* C8 as amended: a job that took its id after a snapshot of its source had
\* seen the id free is never taken for an earlier holder of the id, and a
\* poll that meets it as a new id and is not cut short by a stop request
\* calls _copy_job for it.
C8_ReuseAfterSnapshot ==
    InPoll =>
        \A id \in DOMAIN current_jobs :
            (Plain(id) /\ current_jobs[id].clean) =>
                /\ ~Mistaken(id)
                /\ (pc = "polled" /\ ~stopSeen /\ id \in NewIds) => id \in attempted
                /\ (pc = "polled" /\ ~stopSeen) => id \in processed_jobs[printer]

\* C8, the case: the engine is making the first copy of a new job whose id
\* has been in the tracker of this source before, for an earlier job
C8_Witness ==
    /\ pc = "submit"
    /\ Plain(job_id)
    /\ current_jobs[job_id].clean
    /\ job_id \in NewIds
    /\ Queued(uid)
    /\ hist[uid] = <<>>
    /\ job_id \in usedIds[printer]

\* C9: a job whose copy failed is not copied again while it stays queued: a
\* failed copy is the last one on its record, and no capture or submission is
\* under way for a job with a failed copy on record.
C9_FailedNotRetried ==
    /\ \A j \in PrintedJobs :
          \A i \in 1..Len(hist[j.uid]) :
              hist[j.uid][i] = "failed" => i = Len(hist[j.uid])
    /\ pc \in {"read", "submit"} =>
          \A j \in PrintedJobs :
              j.uid = uid => \A i \in 1..Len(hist[uid]) : hist[uid][i] # "failed"

\* a copy that failed in the capture, or at the opening of the destination,
\* the start of the document or the write
JobFailed ==
    /\ pc = "copied"
    /\ \/ ~ret.read
       \/ ret.faults \cap {"OpenPrinter", "StartDocPrinter", "WritePrinter"} # {}

\* C10: a failed copy returns False with an error line and no "OK" line in
\* the log, lets no exception through, leaves the count of copied jobs and
\* the jobs that are still to do as they are, and the job loop goes on (the
\* loop thread's next step is the one after _copy_job, back in the job loop).
C10_FailureIsLocal ==
    [][JobFailed =>
          /\ ~ret.result
          /\ ~ret.raised
          /\ \A i \in 1..Len(ret.log) : ret.log[i] # "OK"
          /\ ret.log # <<>>
          /\ pc' \in {"copied", "job"}
          /\ copied' = copied
          /\ todo' = todo
          /\ job_id \in processed_jobs'[printer] \/ pc' = "copied"]_vars

\* C10, the case: a copy has failed while another new job of the same poll
\* is still to do
C10_Witness ==
    /\ JobFailed
    /\ todo # {}
    /\ running

(***************************************************************************)
(* Properties of the lifecycle, the trackers, the submitter and the log.   *)
(***************************************************************************)
\* no snapshot has been taken, no tracker seeded, no job handled or submitted
NothingProcessed ==
    /\ \A p \in DOMAIN processed_jobs : processed_jobs[p] = {}
    /\ current_jobs = NoJobs
    /\ enumFails = 0
    /\ job_id = 0
    /\ copied = 0
    /\ ret = NoRet
    /\ \A u \in Uids : hist[u] = <<>>
    /\ \A j \in QueuedJobs : j.uid # 0

\* C11: whenever the check of the spool directory has failed, for whatever
\* reason, the loop is in ERROR (the error status emitted, the fatal line
\* logged) and nothing has been snapshotted, seeded, processed or submitted.
C11_UnreadableGoesToError ==
    spool \notin {"unchecked", "ok"} =>
        /\ pc = "error"
        /\ LogNoAccess \in Range(logged)
        /\ "error" \in Range(status)
        /\ NothingProcessed

\* C12: "running" is reported only when the check of the spool directory has
\* passed, "error" is never reported after "running", and nothing is reported
\* after "stopped" or "error".
C12_LifecycleOrder ==
    /\ "running" \in Range(status) => spool = "ok"
    /\ \A i, j \in 1..Len(status) :
          (i < j /\ status[i] = "running") => status[j] # "error"
    /\ \A i \in 1..Len(status) :
          status[i] \in {"stopped", "error"} => i = Len(status)

\* the tracker of source p changes in this step
TrackerChanges(p) == processed_jobs'[p] # processed_jobs[p]

\* C16: a step changes the tracker of the source that is being seeded or
\* polled and of no other; a poll that no stop request cut short has called
\* _copy_job for every id that was new under the tracker of its own source
\* and has no mirror name, whatever the trackers of the other sources hold;
\* and the document a copy starts on the destination is named after the
\* source of the job.
C16_TrackersPerSource ==
    /\ [][\A p \in DOMAIN processed_jobs :
              TrackerChanges(p) => (printerIdx <= Len(source_printers) /\ p = printer)]_vars
    /\ [](pc = "polled" /\ ~stopSeen =>
              \A id \in NewIds :
                  ~IsMirrorDoc(current_jobs[id].document) => id \in attempted)
    /\ [](pc = "copied" /\ ret.ran /\ ret.started =>
              \E id \in DOMAIN queue[dest_printer] :
                  /\ queue[dest_printer][id].uid = 0
                  /\ queue[dest_printer][id].document = MirrorDocName(printer, document))

\* C16, the case: in one run_once() a job of this source is submitted after
\* the job with the same id of another source, which is in that source's
\* tracker
C16_Witness ==
    /\ pc = "copied"
    /\ ret.written
    /\ copied = 1
    /\ \E p \in DOMAIN processed_jobs :
          /\ p # printer
          /\ job_id \in processed_jobs[p]
          /\ job_id \in DOMAIN queue[p]
          /\ Sent(hist[queue[p][job_id].uid]) = 1

\* the destination calls of the copy that has just ended
Called(c) == c \in Range(ret.calls)
Returned(c) == Called(c) /\ c \notin ret.faults

\* C17: a copy that went as far as the destination has called EndPagePrinter
\* if StartPagePrinter returned, EndDocPrinter if StartDocPrinter returned and
\* ClosePrinter if OpenPrinter returned.
C17_CleanupComplete ==
    (pc = "copied" /\ ret.ran /\ ret.read) =>
        /\ Returned("StartPagePrinter") => Called("EndPagePrinter")
        /\ Returned("StartDocPrinter") => Called("EndDocPrinter")
        /\ Returned("OpenPrinter") => Called("ClosePrinter")

\* the job loop takes a mirror job off the new ids; the snapshot reader fails
SkipStep == pc = "job" /\ pc' = "job" /\ todo' # todo
EnumFailStep == enumFails' # enumFails

\* C19: the step that detects a new job logs it, the step that skips a mirror
\* job logs the skip, the step that ends a copy logs its success or its
\* failure, and the step in which the enumeration of a queue fails logs that.
C19_EveryOutcomeLogged ==
    [][/\ (pc = "job" /\ pc' = "read") => LogNewJob \in Range(logged')
       /\ SkipStep => logged' # <<>>
       /\ (pc \in {"read", "submit"} /\ pc' = "copied") =>
              Range(logged') \cap {"OK", "Error copying job", "Could not read job"} # {}
       /\ EnumFailStep => Range(logged') \ {LogIgnoring} # {}]_vars

(***************************************************************************)
(* Properties of the spool reader.                                         *)
(***************************************************************************)
\* C18: the call never sleeps longer than retries x (settle delay + backoff)
\* in all, 4000 ms with the default of 5 retries, and a capture that fails
\* returns False within that time; for a file that is never found the sleeps
\* are the backoffs between the attempts.
C18_BoundedWait ==
    /\ waited <= retries * (SettleDelay + Backoff)
    /\ retries = Retries => waited <= 4000
    /\ pc = "failed" =>
          /\ ~ret.result
          /\ waited <= retries * (SettleDelay + Backoff)

\* C18, the case: the default call has failed for a file that no attempt
\* found (its sleeps are the four backoffs)
C18_Witness ==
    /\ pc = "failed"
    /\ retries = Retries
    /\ finds = Retries
    /\ waited = (Retries - 1) * Backoff

\* C20: the reader makes at most retries attempts, each with its own call of
\* _find_spool_file; every iteration is the last one or counts one attempt
\* more, and a reader that has not returned can take a step; it returns None
\* only after exactly retries attempts.
C20_ReaderTerminates ==
    /\ [](attempt <= retries /\ finds <= retries)
    /\ [](finds = attempt + (IF spool_data = "data" THEN 1 ELSE 0))
    /\ [](spool_data = "None" => (attempt = retries /\ finds = retries))
    /\ [](pc = "reading" => ENABLED ReaderNext)
    /\ [][pc = "reading" => (attempt' = attempt + 1 \/ pc' = "returned")]_vars

\* C20, the case: the default call has returned None after five attempts
C20_Witness ==
    /\ pc = "returned"
    /\ spool_data = "None"
    /\ retries = Retries
    /\ attempt = Retries

(***************************************************************************)
(* Properties of the GUI and its workers.                                  *)
(***************************************************************************)
\* C13: a worker on which the host has called stop() leaves run() in the end,
\* whenever the call came after the start of its thread.
C13_StopLeadsToStopped ==
    \A i \in 1..MaxWorkers :
        (i <= Len(workers) /\ workers[i].stopReq) ~>
            (i <= Len(workers) /\ workers[i].pc \in Finished)

\* C14: after stop() has been called on a worker its loop passes no check of
\* self.running any more: the only copy it still makes is the one whose
\* between-jobs check had passed before, and it polls no further source.
C14_StopCutsLoop ==
    \A i \in 1..Len(workers) : ~workers[i].afterStop

\* C15: at most one worker is capturing or submitting a job, and at most one
\* has a document open on the destination.
C15_NoParallelCopying ==
    /\ Cardinality({i \in 1..Len(workers) : workers[i].pc \in Copying}) <= 1
    /\ Cardinality({i \in 1..Len(workers) : workers[i].pc = "doc"}) <= 1

(***************************************************************************)
(* Properties of the submitter's protocol, the order of the work and the   *)
(* running flag.                                                           *)
(***************************************************************************)
\* the destination calls of a copy in which none raises
SuccessPath ==
    <<"OpenPrinter", "StartDocPrinter", "StartPagePrinter", "WritePrinter",
      "EndPagePrinter", "EndDocPrinter", "ClosePrinter">>

\* C24: a copy that returns True has made exactly the calls open, start
\* document (under the mirror name of the source and the document), start
\* page, one write, end page, end document, close, none of which raised; and
\* the success line, which carries the new job id, is logged only by a copy
\* in which every call succeeded.
C24_SubmitProtocol ==
    (pc = "copied" /\ ret.ran) =>
        /\ ret.result =>
              /\ ret.calls = SuccessPath
              /\ ret.faults = {}
              /\ \E id \in DOMAIN queue[dest_printer] :
                    queue[dest_printer][id].document = MirrorDocName(printer, document)
        /\ "OK" \in Range(ret.log) => (ret.result /\ ret.faults = {})

\* C25: the job loop takes the new ids of a snapshot in ascending order (the
\* id it takes is below all that remain, and above all it has called
\* _copy_job for), and the sources are polled in the order of
\* source_printers, from the first one in every run_once().
C25_DeterministicOrder ==
    /\ [][(pc = "job" /\ todo' # todo) =>
              \A taken \in todo \ todo' : \A t \in todo' : taken < t]_vars
    /\ [](pc \in {"read", "submit", "copied"} =>
              /\ \A a \in attempted : a < job_id
              /\ \A t \in todo : job_id < t)
    /\ [][(pc = "polled" /\ pc' = "src") => printerIdx' = printerIdx + 1]_vars
    /\ [][(pc = "top" /\ pc' = "src") => printerIdx' = 1]_vars
    /\ [](InPoll => printerIdx \in 1..Len(source_printers))

\* C25, the case: the second new job of one snapshot is being copied, after
\* the first
C25_Witness ==
    /\ pc = "read"
    /\ attempted # {}
    /\ job_id \in NewIds

\* C26: when run() has returned, after a stop request or after the failed
\* check of the spool directory, self.running is false.
C26_ReturnedNotRunning ==
    pc \in {"stopped", "error"} => ~running

MaxFiles == 2
MaxTime == 2

Width == 5
Digits == <<"0", "1", "2", "3", "4", "5", "6", "7", "8", "9">>
LowerCase == <<"a", "b", "c", "d", "e", "f", "g", "h", "i", "j", "k", "l", "m",
               "n", "o", "p", "q", "r", "s", "t", "u", "v", "w", "x", "y", "z">>
UpperCase == <<"A", "B", "C", "D", "E", "F", "G", "H", "I", "J", "K", "L", "M",
               "N", "O", "P", "Q", "R", "S", "T", "U", "V", "W", "X", "Y", "Z">>

\* the decimal digits of n, as format(n, "d") writes them
RECURSIVE Decimal(_)
Decimal(n) ==
    IF n < 10 THEN <<Digits[n + 1]>>
    ELSE Decimal(n \div 10) \o <<Digits[(n % 10) + 1]>>

\* f"{n:05d}": zeros on the left up to the width, nothing cut off
RECURSIVE ZeroPad(_, _)
ZeroPad(str, width) ==
    IF Len(str) >= width THEN str ELSE ZeroPad(<<"0">> \o str, width)

\* str.upper()
Upper(str) ==
    [i \in DOMAIN str |->
        IF \E k \in DOMAIN LowerCase : LowerCase[k] = str[i]
        THEN UpperCase[CHOOSE k \in DOMAIN LowerCase : LowerCase[k] = str[i]]
        ELSE str[i]]

\* str.endswith(suffix)
EndsWith(str, suffix) ==
    /\ Len(str) >= Len(suffix)
    /\ SubSeq(str, Len(str) - Len(suffix) + 1, Len(str)) = suffix

SplExt == <<".", "S", "P", "L">>

\* the two deterministic names, in the order the code tries them
UnprefixedFirst(id) ==
    << ZeroPad(Decimal(id), Width) \o SplExt,
       <<"F", "P">> \o ZeroPad(Decimal(id), Width) \o SplExt >>

patterns(id) ==
    << <<"F", "P">> \o ZeroPad(Decimal(id), Width) \o SplExt,
       ZeroPad(Decimal(id), Width) \o SplExt >>

\* os.path.exists, for a name in the directory dir
PathExists(dir, name) ==
    \E i \in DOMAIN dir : dir[i].name = name /\ dir[i].stat

\* list.sort(key=mtime, reverse=True) is stable: entries of equal time keep
\* the order they had.  InsertByMtime puts f into a sorted list behind every
\* entry that is at least as recent.
RECURSIVE InsertOldestFirst(_, _)
InsertOldestFirst(sorted, f) ==
    IF sorted = <<>> THEN <<f>>
    ELSE IF Head(sorted).mtime <= f.mtime
         THEN <<Head(sorted)>> \o InsertOldestFirst(Tail(sorted), f)
         ELSE <<f>> \o sorted

RECURSIVE InsertByMtime(_, _)
InsertByMtime(sorted, f) ==
    IF sorted = <<>> THEN <<f>>
    ELSE IF Head(sorted).mtime >= f.mtime
         THEN <<Head(sorted)>> \o InsertByMtime(Tail(sorted), f)
         ELSE <<f>> \o sorted

RECURSIVE SortByMtime(_)
SortByMtime(files) ==
    IF files = <<>> THEN <<>>
    ELSE InsertByMtime(SortByMtime(SubSeq(files, 1, Len(files) - 1)),
                       files[Len(files)])

\* the list spl_files that the loop over os.listdir builds
SplFiles(dir) ==
    SelectSeq(dir, LAMBDA f : /\ EndsWith(Upper(f.name), SplExt)
                              /\ f.stat
                              /\ f.size > 0)

NoFile == <<>>

\* _find_spool_file(job_id) in the directory dir: the name it returns (NoFile
\* for None) and whether it has logged the error of os.listdir
FindSpoolFile(dir, canList, id) ==
    LET pats == patterns(id)
    IN  IF PathExists(dir, pats[1]) THEN [file |-> pats[1], error |-> FALSE]
        ELSE IF PathExists(dir, pats[2]) THEN [file |-> pats[2], error |-> FALSE]
        ELSE IF ~canList THEN [file |-> NoFile, error |-> TRUE]
        ELSE LET spl_files == SplFiles(dir)
             IN  IF spl_files # <<>>
                 THEN [file |-> SortByMtime(spl_files)[1].name, error |-> FALSE]
                 ELSE [file |-> NoFile, error |-> FALSE]

LogFindError == "Error finding spool file"

\* ---- the directories the locator is run on ----
OtherSpl == <<"x", ".", "s", "p", "l">>
ShadowFile == <<"0", "0", "0", "0", "1", ".", "S", "H", "D">>
FileNames ==
    UNION {{patterns(id)[1], patterns(id)[2]} : id \in JobIds}
        \cup {OtherSpl, ShadowFile}
Entries == [name : FileNames, size : 0..1, mtime : 1..MaxTime, stat : BOOLEAN]
Directories ==
    {dir \in UNION {[1..n -> Entries] : n \in 0..MaxFiles} :
        \A i, j \in DOMAIN dir : dir[i].name = dir[j].name => i = j}

LocatorInit ==
    /\ Constructed
    /\ pc = "locating"
    /\ job_id \in JobIds
    /\ retries = Retries
    /\ spool_dir \in Directories
    /\ listable \in BOOLEAN
    /\ spool_file = "pending"
    /\ spooling = NoJob
    /\ clock = 0
    /\ data = <<>>
    /\ NoLoops

\* one call of _find_spool_file(job_id)
Locate ==
    /\ pc = "locating"
    /\ LET found == FindSpoolFile(spool_dir, listable, job_id)
       IN  /\ spool_file' = found.file
           /\ logged' = IF found.error THEN Append(logged, LogFindError)
                        ELSE logged
    /\ pc' = "located"
    /\ UNCHANGED <<source_printers, retries, waited, finds, spool_data,
                   spool_dir, listable, spooling, clock, data, copyVars, hostVars,
                   running, processed_jobs,
                   printerIdx, current_jobs, todo, job_id, attempt, ret, copied,
                   queue, stopRequested, pollHistory, hist, trackedUid, usedIds,
                   idle, enumFails, arrivals, spool, status, handles>>

LocatorNext == Locate

LocatorSpec == LocatorInit /\ [][LocatorNext]_vars

(***************************************************************************)
(* Properties of the locator.                                              *)
(***************************************************************************)
\* the names as the spooler writes them
PrefixedName ==
    [id \in 1..3 |->
        <<"F", "P", "0", "0", "0", "0", Digits[id + 1], ".", "S", "P", "L">>]
UnprefixedName ==
    [id \in 1..3 |-> <<"0", "0", "0", "0", Digits[id + 1], ".", "S", "P", "L">>]

\* the entries the heuristic may choose from: spool extension in any case,
\* readable attributes, nonzero size
Candidates ==
    {i \in DOMAIN spool_dir :
        /\ Len(spool_dir[i].name) >= 4
        /\ LET n == Len(spool_dir[i].name)
           IN  /\ spool_dir[i].name[n - 3] = "."
               /\ spool_dir[i].name[n - 2] \in {"S", "s"}
               /\ spool_dir[i].name[n - 1] \in {"P", "p"}
               /\ spool_dir[i].name[n] \in {"L", "l"}
        /\ spool_dir[i].stat
        /\ spool_dir[i].size # 0}

\* C22: for every content of the spool directory, the locator returns the prefixed deterministic name if it exists, otherwise
\* the unprefixed one if it exists, otherwise a file of the most recent
\* modification time among those with the spool extension and nonzero size,
\* otherwise nothing (also when the directory cannot be listed): a
\* deterministic match wins over every other file.
C22_LocatorChoice ==
    (pc = "located" /\ job_id \in DOMAIN PrefixedName) =>
        IF PathExists(spool_dir, PrefixedName[job_id])
        THEN spool_file = PrefixedName[job_id]
        ELSE IF PathExists(spool_dir, UnprefixedName[job_id])
        THEN spool_file = UnprefixedName[job_id]
        ELSE IF listable /\ Candidates # {}
        THEN \E i \in Candidates :
                /\ spool_file = spool_dir[i].name
                /\ \A j \in Candidates : spool_dir[j].mtime <= spool_dir[i].mtime
        ELSE spool_file = NoFile

\* C22, the case: no deterministic name, two candidates of different age
C22_Witness ==
    /\ pc = "located"
    /\ listable
    /\ ~PathExists(spool_dir, PrefixedName[job_id])
    /\ ~PathExists(spool_dir, UnprefixedName[job_id])
    /\ \E i, j \in Candidates : spool_dir[i].mtime < spool_dir[j].mtime
    /\ spool_file # NoFile

(***************************************************************************)
(* The capture of one job: _read_spool_data with _find_spool_file, run     *)
(* against a spool directory that the spooler goes on writing.  The        *)
(* spooler spools one job at a time: it takes the job into its queue,      *)
(* creates the file, writes the payload piece by piece and is done; the    *)
(* file of a job that is done stays until the job has been printed.  The   *)
(* name the spooler gives the file follows the convention of the driver,   *)
(* which need not be one of the two that the locator knows.  A file has an *)
(* owner, the job whose payload it holds, and is locked while an open() of *)
(* it would raise.                                                         *)
(***************************************************************************)
MaxClock == 4
MaxBytes == 2

Owners == Printers \X JobIds

\* the payload of a job: its bytes are its own
Payload(job) == [k \in 1..MaxBytes |-> <<job, k>>]

\* what f.read() returns for a directory entry
Content(f) == SubSeq(Payload(f.owner), 1, f.size)

SpoolNames == FileNames \ {ShadowFile}

IndexOf(dir, name) == CHOOSE i \in DOMAIN dir : dir[i].name = name

Without(dir, i) == SubSeq(dir, 1, i - 1) \o SubSeq(dir, i + 1, Len(dir))

\* the jobs a snapshot of the queues can show
InQueue ==
    (IF spooling = NoJob THEN {} ELSE {spooling})
        \cup {spool_dir[i].owner : i \in DOMAIN spool_dir}

\* "if data and len(data) > 0"
AnyData(bytes) == TRUE
Nonempty(bytes) == bytes # <<>> /\ Len(bytes) > 0

captureFixed ==
    <<source_printers, retries, waited, hostVars, running, processed_jobs,
      current_jobs, todo, copied, queue, stopRequested, pollHistory, hist,
      trackedUid, usedIds, idle, enumFails, arrivals, sinkVars, listable, ret,
      copyVars>>

readerVars ==
    <<pc, printerIdx, job_id, attempt, finds, spool_data, spool_file, data>>

CaptureInit ==
    /\ Constructed
    /\ NoDirectory
    /\ pc = "queued"
    /\ job_id = 0
    /\ retries = Retries

\* ---- the spooler ----
SpoolerStart ==
    /\ spooling = NoJob
    /\ \E job \in Owners :
          /\ \A i \in DOMAIN spool_dir : spool_dir[i].owner # job
          /\ spooling' = job
    /\ UNCHANGED <<captureFixed, readerVars, spool_dir, clock>>

SpoolerCreate ==
    /\ spooling # NoJob
    /\ \A i \in DOMAIN spool_dir : spool_dir[i].owner # spooling
    /\ Len(spool_dir) < MaxFiles
    /\ clock < MaxClock
    /\ \E name \in SpoolNames :
          /\ \A i \in DOMAIN spool_dir : spool_dir[i].name # name
          /\ spool_dir' = Append(spool_dir,
                [name |-> name, size |-> 0, mtime |-> clock + 1, stat |-> TRUE,
                 owner |-> spooling, locked |-> FALSE])
    /\ clock' = clock + 1
    /\ UNCHANGED <<captureFixed, readerVars, spooling>>

SpoolerWrite ==
    /\ spooling # NoJob
    /\ clock < MaxClock
    /\ \E i \in DOMAIN spool_dir :
          /\ spool_dir[i].owner = spooling
          /\ spool_dir[i].size < MaxBytes
          /\ \E lock \in BOOLEAN :
                spool_dir' = [spool_dir EXCEPT ![i].size = @ + 1,
                                               ![i].mtime = clock + 1,
                                               ![i].locked = lock]
    /\ clock' = clock + 1
    /\ UNCHANGED <<captureFixed, readerVars, spooling>>

SpoolerDone ==
    /\ spooling # NoJob
    /\ \E i \in DOMAIN spool_dir :
          /\ spool_dir[i].owner = spooling
          /\ spool_dir[i].size = MaxBytes
          /\ spool_dir' = [spool_dir EXCEPT ![i].locked = FALSE]
    /\ spooling' = NoJob
    /\ UNCHANGED <<captureFixed, readerVars, clock>>

\* a job that is done has been printed: its file goes
SpoolerDelete ==
    /\ \E i \in DOMAIN spool_dir :
          /\ spool_dir[i].owner # spooling
          /\ spool_dir' = Without(spool_dir, i)
    /\ UNCHANGED <<captureFixed, readerVars, spooling, clock>>

\* ---- the engine ----
\* run_once has found the job in a snapshot and calls _copy_job, which calls
\* _read_spool_data
Detect ==
    /\ pc = "queued"
    /\ \E job \in InQueue :
          /\ printerIdx' = CHOOSE k \in DOMAIN source_printers :
                              source_printers[k] = job[1]
          /\ job_id' = job[2]
    /\ pc' = "locate"
    /\ UNCHANGED <<captureFixed, attempt, finds, spool_data, spool_file, data,
                   spool_dir, spooling, clock>>

\* the head of an iteration: _find_spool_file; nothing found ends the
\* iteration
LocateStep ==
    /\ pc = "locate"
    /\ InRange(attempt, retries)
    /\ finds' = finds + 1
    /\ spool_file' = FindSpoolFile(spool_dir, listable, job_id).file
    /\ IF spool_file' = NoFile
          THEN /\ attempt' = attempt + 1
               /\ pc' = "locate"
          ELSE /\ attempt' = attempt
               /\ pc' = "settle"
    /\ UNCHANGED <<captureFixed, printerIdx, job_id, spool_data, data, spool_dir,
                   spooling, clock>>

\* after time.sleep(0.3): open and read; content is returned, an error or no
\* content ends the iteration
ReadStep ==
    /\ pc = "settle"
    /\ IF /\ \E i \in DOMAIN spool_dir : spool_dir[i].name = spool_file
          /\ ~spool_dir[IndexOf(spool_dir, spool_file)].locked
          THEN /\ data' = Content(spool_dir[IndexOf(spool_dir, spool_file)])
               /\ IF Nonempty(data')
                     THEN /\ spool_data' = "data"
                          /\ pc' = "returned"
                          /\ attempt' = attempt
                     ELSE /\ attempt' = attempt + 1
                          /\ pc' = "locate"
                          /\ UNCHANGED spool_data
          ELSE /\ attempt' = attempt + 1
               /\ pc' = "locate"
               /\ UNCHANGED <<spool_data, data>>
    /\ UNCHANGED <<captureFixed, printerIdx, job_id, finds, spool_file, spool_dir,
                   spooling, clock>>

\* the loop is over: return None
ReadExhausted ==
    /\ pc = "locate"
    /\ ~InRange(attempt, retries)
    /\ spool_data' = "None"
    /\ pc' = "returned"
    /\ UNCHANGED <<captureFixed, printerIdx, job_id, attempt, finds, spool_file,
                   data, spool_dir, spooling, clock>>

CaptureNext ==
    \/ SpoolerStart
    \/ SpoolerCreate
    \/ SpoolerWrite
    \/ SpoolerDone
    \/ SpoolerDelete
    \/ Detect
    \/ LocateStep
    \/ ReadStep
    \/ ReadExhausted
    \/ Capture

CaptureSpec == CaptureInit /\ [][CaptureNext]_vars

(***************************************************************************)
(* Properties of the capture.                                              *)
(***************************************************************************)
\* the located file is there, can be opened and holds something
ReadsNonempty ==
    /\ \E i \in DOMAIN spool_dir :
          /\ spool_dir[i].name = spool_file
          /\ ~spool_dir[i].locked
          /\ spool_dir[i].size # 0

\* C21: the reader succeeds at the first attempt whose located file reads as
\* nonempty content and returns exactly that content; an attempt in which no
\* file is found, the read is empty or the read raises is a failed attempt
\* followed by the next one; empty content is never returned as a success,
\* and failure only after the last attempt.
C21_ReaderContract ==
    /\ [][(pc = "settle" /\ pc' # pc) =>
            IF ReadsNonempty
            THEN /\ pc' = "returned"
                 /\ spool_data' = "data"
                 /\ \E i \in DOMAIN spool_dir :
                       /\ spool_dir[i].name = spool_file
                       /\ data' = [k \in 1..spool_dir[i].size |->
                                      <<spool_dir[i].owner, k>>]
            ELSE /\ pc' = "locate"
                 /\ attempt' = attempt + 1
                 /\ spool_data' = "pending"]_vars
    /\ [][(pc = "locate" /\ finds' # finds /\ spool_file' = NoFile) =>
            /\ pc' = "locate"
            /\ attempt' = attempt + 1
            /\ spool_data' = "pending"]_vars
    /\ [](spool_data = "data" => (pc \in {"returned", "captured"} /\ data # <<>>))
    /\ [](spool_data = "None" => attempt = retries)

\* C21, the case: content returned after an attempt that has failed
C21_Witness ==
    /\ pc = "returned"
    /\ spool_data = "data"
    /\ attempt > 0
    /\ data # <<>>

\* C23: with one job spooled at a time, the bytes that _copy_job goes on to
\* submit for a job are bytes of the payload of that job, and of no other.
C23_OwnPayload ==
    pc = "captured" =>
        \A k \in DOMAIN data : data[k][1] = <<printer, job_id>>

(***************************************************************************)
(* The three copies of the loop, side by side: PrinterMirrorCore.run with  *)
(* run_once ("core"), EmiliaPrintMirrorService.main with run_once          *)
(* ("service") and MirrorWorker.run ("gui").  Each copy runs its own code  *)
(* up to the next call of _get_current_jobs or _copy_job; when all of them *)
(* are at such a call, or have left their loop, the same snapshot or the   *)
(* same outcome is given to all that wait for it.  The stop request is     *)
(* made at the same moment for all: before the loop function has run its   *)
(* first statement, during the n-th snapshot, during the n-th copy, or     *)
(* never.  A copy is cut off after MaxPolls polls.                         *)
(***************************************************************************)
MaxPolls == 2

Kinds == {"core", "service", "gui"}

AtStartup == <<"startup", 0>>

StopPoints ==
    {AtStartup, Never}
        \cup {<<"read", n>> : n \in 1..(Len(<<"A", "D">>) * (MaxPolls + 1))}
        \cup {<<"copy", n>> : n \in 1..MaxId}

\* what _get_current_jobs can return for a queue: the documents by job id
Snapshots(p) == UNION {[ids -> DocsOn(p)] : ids \in SUBSET JobIds}

NewLoop ==
    [pc |-> "new", running |-> FALSE, event |-> FALSE, asked |-> FALSE,
     processed_jobs |-> [p \in Printers |-> {}], printerIdx |-> 1,
     current_jobs |-> NoJobs, todo |-> {}, job_id |-> 0, reads |-> 0,
     copies |-> 0, polls |-> 0, sent |-> 0, last |-> <<>>,
     polled |-> [p \in Printers |-> {}]]

\* the copy is at a call of _get_current_jobs or _copy_job, or out of its loop
Blocked(l) == l.pc \in {"seed", "read", "copy", "done", "cut"}

\* stop(): self.running = False; SvcStop: SetEvent(self.stop_event), and
\* self.mirror.stop() if self.mirror is there, which it is once main() has
\* made it
Stopped(kind, l) ==
    IF kind = "service"
    THEN [l EXCEPT !.event = TRUE,
                   !.running = IF l.pc = "new" THEN @ ELSE FALSE,
                   !.asked = TRUE]
    ELSE [l EXCEPT !.running = FALSE, !.asked = TRUE]

\* run_once reads self.processed_jobs.get(printer, set()), MirrorWorker.run
\* self.processed_jobs[printer]
Tracked(kind, l, p) ==
    IF kind = "gui" THEN l.processed_jobs[p]
    ELSE IF p \in DOMAIN l.processed_jobs THEN l.processed_jobs[p] ELSE {}

\* the condition under which the loop goes round once more: "while
\* self.running" and, in the service, the wait on the stop event
GoesOn(kind, l) ==
    IF kind = "service" THEN l.running /\ ~l.event ELSE l.running

EquivInit ==
    /\ Constructed
    /\ spool_dir = <<>>
    /\ listable = TRUE
    /\ spool_file = "pending"
    /\ spooling = NoJob
    /\ clock = 0
    /\ data = <<>>
    /\ pc = "compared"
    /\ job_id = 0
    /\ retries = Retries
    /\ stopAt \in StopPoints
    /\ loops = [kind \in Kinds |-> NewLoop]

equivFixed ==
    <<source_printers, retries, waited, finds, spool_data, dirVars, hostVars,
      running, processed_jobs, pc, printerIdx, current_jobs, todo, job_id,
      attempt, ret, copied, queue, stopRequested, pollHistory, hist, trackedUid,
      usedIds, idle, enumFails, arrivals, sinkVars, stopAt>>

\* the stop request that is made before the loop function has begun
StopAtStartup(kind) ==
    /\ stopAt = AtStartup
    /\ loops[kind].pc = "new"
    /\ ~loops[kind].asked
    /\ loops' = [loops EXCEPT ![kind] = Stopped(kind, @)]
    /\ UNCHANGED equivFixed

\* the first statements: self.running = True (self.mirror.running = True in
\* the service), the log line, the check of the spool directory
LoopBegin(kind) ==
    /\ loops[kind].pc = "new"
    /\ stopAt = AtStartup => loops[kind].asked
    /\ loops' = [loops EXCEPT ![kind].running = TRUE, ![kind].pc = "seed"]
    /\ UNCHANGED equivFixed

\* the copy of the loop head, of the "for printer" head and of the "for
\* job_id" head with its body up to _copy_job
LoopStep(kind) ==
    LET l == loops[kind]
        p == source_printers[l.printerIdx]
    IN  /\ l.pc \in {"head", "src", "job"}
        /\ loops' = [loops EXCEPT ![kind] =
              IF l.pc = "head"
              THEN IF ~GoesOn(kind, l) THEN [l EXCEPT !.pc = "done"]
                   ELSE IF l.polls >= MaxPolls THEN [l EXCEPT !.pc = "cut"]
                   ELSE [l EXCEPT !.pc = "src", !.printerIdx = 1]
              ELSE IF l.pc = "src"
              THEN IF l.printerIdx > Len(source_printers) \/ ~l.running
                   THEN [l EXCEPT !.pc = "head", !.polls = @ + 1,
                                  !.polled = l.processed_jobs, !.printerIdx = 1]
                   ELSE [l EXCEPT !.pc = "read"]
              ELSE IF l.todo = {} \/ ~l.running
                   THEN [l EXCEPT !.pc = "src", !.printerIdx = @ + 1,
                                  !.processed_jobs[p] = Evict(@, l.current_jobs)]
                   ELSE IF IsMirrorDoc(l.current_jobs[Min(l.todo)])
                        THEN [l EXCEPT !.todo = @ \ {Min(l.todo)},
                                       !.processed_jobs[p] = @ \cup {Min(l.todo)}]
                        ELSE [l EXCEPT !.todo = @ \ {Min(l.todo)},
                                       !.job_id = Min(l.todo), !.pc = "copy"]]
        /\ UNCHANGED equivFixed

AllBlocked == \A kind \in Kinds : Blocked(loops[kind])

\* a snapshot is given to the copies that are in _get_current_jobs
FeedSnapshot ==
    LET waiting == {kind \in Kinds : loops[kind].pc \in {"seed", "read"}}
    IN  /\ AllBlocked
        /\ waiting # {}
        /\ \A k1, k2 \in waiting :
              /\ loops[k1].reads = loops[k2].reads
              /\ loops[k1].printerIdx = loops[k2].printerIdx
        /\ \E kind \in waiting :
           \E jobs \in Snapshots(source_printers[loops[kind].printerIdx]) :
              loops' = [k \in Kinds |->
                 IF k \notin waiting THEN loops[k]
                 ELSE LET l == loops[k]
                          p == source_printers[l.printerIdx]
                          got == IF l.pc = "seed"
                                 THEN [l EXCEPT
                                         !.reads = @ + 1,
                                         !.processed_jobs[p] = DOMAIN jobs,
                                         !.printerIdx =
                                            IF @ = Len(source_printers) THEN 1
                                            ELSE @ + 1,
                                         !.pc =
                                            IF l.printerIdx = Len(source_printers)
                                            THEN "head" ELSE "seed"]
                                 ELSE [l EXCEPT
                                         !.reads = @ + 1,
                                         !.current_jobs = jobs,
                                         !.todo = NewJobIds(jobs, Tracked(k, l, p)),
                                         !.pc = "job"]
                      IN  IF stopAt = <<"read", l.reads + 1>>
                          THEN Stopped(k, got) ELSE got]
        /\ UNCHANGED equivFixed

\* the outcome of _copy_job is given to the copies that are in it
FeedOutcome ==
    LET waiting == {kind \in Kinds : loops[kind].pc = "copy"}
    IN  /\ AllBlocked
        /\ waiting # {}
        /\ \E ok \in BOOLEAN :
              loops' = [k \in Kinds |->
                 IF k \notin waiting THEN loops[k]
                 ELSE LET l == loops[k]
                          p == source_printers[l.printerIdx]
                          got == [l EXCEPT
                                    !.copies = @ + 1,
                                    !.sent = IF ok THEN @ + 1 ELSE @,
                                    !.last = IF ok THEN <<p, l.job_id>> ELSE @,
                                    !.processed_jobs[p] = AddCopied(@, l.job_id, ok),
                                    !.pc = "job"]
                      IN  IF stopAt = <<"copy", l.copies + 1>>
                          THEN Stopped(k, got) ELSE got]
        /\ UNCHANGED equivFixed

EquivNext ==
    \/ \E kind \in Kinds : StopAtStartup(kind)
    \/ \E kind \in Kinds : LoopBegin(kind)
    \/ \E kind \in Kinds : LoopStep(kind)
    \/ FeedSnapshot
    \/ FeedOutcome

EquivSpec == EquivInit /\ [][EquivNext]_vars

(***************************************************************************)
(* Properties of the three copies.                                         *)
(***************************************************************************)
\* what a copy has shown so far: its submissions, and its trackers after its
\* last poll
Shown(l) == <<l.sent, l.last, l.polls, l.polled>>

\* C28: given the same snapshots, outcomes and stop request, the three copies
\* of the loop make the same submissions and have the same trackers after
\* every poll.
C28_LoopsEquivalent ==
    AllBlocked =>
        \A k1, k2 \in Kinds : Shown(loops[k1]) = Shown(loops[k2])

====
